---------------------------- MODULE Spec2Model ----------------------------
(***************************************************************************)
(* Okta provider of oauth2_proxy: the session refresh and validation       *)
(* operations of providers/okta.go, as a state machine over one shared     *)
(* SessionState, the clock, the provider configuration and the goroutines  *)
(* that call the provider; the defaulting of the provider's endpoints      *)
(* (SetOktaDomain); and the response logger of logging_handler.go.         *)
(*                                                                         *)
(* Time is counted in ticks. A tick stands for Go's nanosecond and         *)
(* TicksPerSecond for time.Second (10^9); a time.Duration is a signed      *)
(* integer of DurationBits bits that stands for Go's int64. Both are       *)
(* scaled down so that the values fit TLC's 32-bit integers; the           *)
(* arithmetic (multiply, wrap, add, truncate) is the code's.               *)
(***************************************************************************)
EXTENDS Integers, Sequences, FiniteSets, TLC

(***************************************************************************)
(* Bounds of the model                                                     *)
(***************************************************************************)
\* ticks in one second (time.Second, scaled)
TicksPerSecond == 2
\* width of time.Duration and of the int64 field expires_in (64, scaled)
DurationBits == 5
\* how far the clock may advance
MaxTicks == 2
\* token-endpoint POSTs issued in one run
MaxPosts == 2
\* calls of SetOktaDomain in one run
MaxSets == 2
\* operations the wrapped handler performs on its ResponseWriter in one request
MaxOps == 3

(***************************************************************************)
(* Program constants                                                       *)
(***************************************************************************)
StatusOK == 200

Procs == {"g1", "g2"}

Statuses == {StatusOK, 401, 500}

(***************************************************************************)
(* time.Duration: a signed integer of DurationBits bits                    *)
(***************************************************************************)
MaxInt == 2 ^ (DurationBits - 1) - 1

MinInt == 0 - 2 ^ (DurationBits - 1)

IntRange == MinInt .. MaxInt

\* two's-complement wrap-around of a signed integer operation
WrapInt(x) == ((x - MinInt) % (2 ^ DurationBits)) + MinInt

\* time.Duration(n) * time.Second
SecondsToDuration(n) == WrapInt(n * TicksPerSecond)

\* Time.Truncate(time.Second): round down to a multiple of a second since the zero time
TruncateSecond(t) == t - (t % TicksPerSecond)

\* Time.Add(d).Truncate(time.Second)
ExpiryAt(t, d) == TruncateSecond(t + d)

\* a comparison the wrong way round
After_Reversed(t, u) == t < u

\* a comparison that also holds at equality
After_OrEqual(t, u) == t >= u

\* Time.After
After(t, u) == t > u

\* the first instant of the run, a whole second, late enough that no expiry is negative
Epoch == TicksPerSecond * (2 ^ DurationBits)

\* the smallest lifetime in seconds whose duration does not fit
FirstOverflow == (MaxInt \div TicksPerSecond) + 1

(***************************************************************************)
(* Values                                                                  *)
(***************************************************************************)
NewTokens == {"new1", "new2"}

\* lifetimes an answer may carry: a short one, one whose duration wraps, and a
\* number the int64 field cannot hold
ExpiresInValues == {1, FirstOverflow, MaxInt + 1}

\* a member of a JSON object: absent, a string or a number
Absent == [t |-> "absent", s |-> "", n |-> 0]

JString(v) == [t |-> "string", s |-> v, n |-> 0]

JNumber(v) == [t |-> "number", s |-> "", n |-> v]

\* a response body: not JSON at all, or a JSON object with its two members of interest
Garbage == [wellformed |-> FALSE, access_token |-> Absent, expires_in |-> Absent]

JObject(a, e) == [wellformed |-> TRUE, access_token |-> a, expires_in |-> e]

AccessTokenMembers == {Absent, JNumber(1)} \cup {JString(v) : v \in NewTokens}

ExpiresInMembers == {Absent, JString("soon")} \cup {JNumber(v) : v \in ExpiresInValues}

Bodies == {Garbage} \cup {JObject(a, e) : a \in AccessTokenMembers, e \in ExpiresInMembers}

\* bodies sent along with a status other than 200
ErrorBodies == {Garbage, JObject(JString("new1"), JNumber(1))}

NoResponse == [kind |-> "none", status |-> 0, body |-> Garbage]

\* what http.DefaultClient.Do and ioutil.ReadAll can give
Responses ==
    {[kind |-> "transport", status |-> 0, body |-> Garbage]}
    \cup {[kind |-> "readerr", status |-> StatusOK, body |-> Garbage]}
    \cup {[kind |-> "ok", status |-> StatusOK, body |-> b] : b \in Bodies}
    \cup {[kind |-> "ok", status |-> st, body |-> b] : st \in Statuses \ {StatusOK}, b \in ErrorBodies}

(***************************************************************************)
(* encoding/json: Unmarshal into struct{AccessToken string; ExpiresIn int64}*)
(***************************************************************************)
\* a member decodes into a string field: absent leaves the zero value
DecodeString(m) ==
    CASE m.t = "absent" -> [err |-> FALSE, v |-> ""]
      [] m.t = "string" -> [err |-> FALSE, v |-> m.s]
      [] OTHER -> [err |-> TRUE, v |-> ""]

\* a member decodes into an int64 field: absent leaves the zero value
DecodeInt(m) ==
    CASE m.t = "absent" -> [err |-> FALSE, v |-> 0]
      [] m.t = "number" /\ m.n \in IntRange -> [err |-> FALSE, v |-> m.n]
      [] OTHER -> [err |-> TRUE, v |-> 0]

Unmarshal(body) ==
    LET a == DecodeString(body.access_token)
        e == DecodeInt(body.expires_in)
    IN  [err |-> ~body.wellformed \/ a.err \/ e.err,
         AccessToken |-> a.v,
         ExpiresIn |-> e.v]

(***************************************************************************)
(* net/url                                                                 *)
(***************************************************************************)
GoodHost == "dev.okta.example"

\* a host that URL.String() escapes into a form url.Parse rejects
BadHost == "bad host"

URL(host, path) == [Scheme |-> "https", Host |-> host, Path |-> path]

\* a *url.URL field that is nil
NilURL == [Scheme |-> "<nil>", Host |-> "", Path |-> ""]

\* &url.URL{}
EmptyURL == [Scheme |-> "", Host |-> "", Path |-> ""]

\* a URL of a path alone
PathURL(path) == [Scheme |-> "", Host |-> "", Path |-> path]

\* what URL.String() makes of a host: a space is escaped
EscapeHost(host) == IF host = BadHost THEN "bad%20host" ELSE host

\* URL.String(): scheme, "//" and the host when there is a scheme or a host, the path
URLString(u) ==
    (IF u.Scheme # "" THEN u.Scheme \o ":" ELSE "")
    \o (IF u.Scheme # "" \/ u.Host # "" THEN "//" \o EscapeHost(u.Host) ELSE "")
    \o u.Path

\* http.NewRequest parses URL.String(): whether that succeeds
NewRequestOK(u) == u.Host # BadHost


(***************************************************************************)
(* State                                                                   *)
(***************************************************************************)
VARIABLES
    now,      \* the clock, in ticks (time.Now())
    sess,     \* the one SessionState the callers share
    prov,     \* the provider configuration (ProviderData)
    pc,       \* where each goroutine is in its call
    loc,      \* each goroutine's locals of the call in progress
    posts,    \* token-endpoint POSTs issued so far; a response's serial number
    tokSrc,   \* serial number of the response sess.AccessToken came from (0: none)
    expSrc,   \* serial number of the response sess.ExpiresOn came from (0: none)
    raced,    \* one call wrote AccessToken while another was between its two writes
    start,    \* the provider configuration as NewOktaProvider returned it
    doms,     \* the domains SetOktaDomain was called with so far, in order
    w,        \* the server's http.ResponseWriter: its header map and what it has sent
    logger,   \* the responseLogger of the request being served
    srv,      \* the loggingHandler and its request: where ServeHTTP is, what the handler did
    line      \* the audit line written for the request

vars == <<now, sess, prov, pc, loc, posts, tokSrc, expSrc, raced, start, doms,
          w, logger, srv, line>>

\* the state of the calls on a session
coreVars == <<now, sess, pc, loc, posts, tokSrc, expSrc, raced>>

\* the history of the provider's configuration
domVars == <<start, doms>>

\* the logging handler
logVars == <<w, logger, srv, line>>

GAPHeaders == {"GAP-Auth", "GAP-Upstream-Address"}

\* a header map, as far as the two headers go: "" is Header.Get of a header not set
NoHeaders == [k \in GAPHeaders |-> ""]

\* the server's response before anything is written
NewWriter ==
    [header |-> NoHeaders, wroteHeader |-> FALSE, status |-> 0, sent |-> NoHeaders,
     size |-> 0]

\* &responseLogger{w: w}
NewLogger == [status |-> 0, size |-> 0, upstream |-> "", authInfo |-> ""]

NoLine == [written |-> FALSE, Username |-> "", Upstream |-> "", StatusCode |-> "",
           ResponseSize |-> ""]

\* a logging handler that serves nothing yet; auth and upstream are the values the
\* wrapped handler last set the two headers to
IdleServer(enabled, user) ==
    [phase |-> "idle", enabled |-> enabled, user |-> user, ops |-> <<>>,
     auth |-> "", upstream |-> ""]

NoSession == [AccessToken |-> "", RefreshToken |-> "", ExpiresOn |-> 0]

NoRequest == [client_id |-> "", client_secret |-> "", refresh_token |-> "", grant_type |-> ""]

NoHeader == [Authorization |-> ""]

\* a call: op and s are the operation and its argument; pre, t0 and posts0 are the
\* session, the clock and the POST count when it started; req and resp are its
\* token-endpoint traffic; T is the clock when it wrote ExpiresOn; ok, val, err are its
\* result; logged tells whether it called log.Printf
NoCall ==
    [op |-> "none", s |-> "nil", pre |-> NoSession, t0 |-> 0, posts0 |-> 0,
     req |-> NoRequest, resp |-> NoResponse, header |-> NoHeader, T |-> 0,
     ok |-> FALSE, val |-> "", err |-> "nil", logged |-> FALSE]

IdleLoc == [call |-> NoCall, newToken |-> "", duration |-> 0, rid |-> 0]

InitialSessions ==
    [AccessToken : {"old"},
     RefreshToken : {"", "refresh1"},
     ExpiresOn : {Epoch - TicksPerSecond, Epoch, Epoch + TicksPerSecond}]

DefaultScope == "openid profile email offline_access"

\* a provider once NewOktaProvider and SetOktaDomain(h) have run on a ProviderData
\* with no endpoint configured
InitialProviders ==
    {[ProviderName |-> "Okta", ClientID |-> "id", ClientSecret |-> "secret",
      Scope |-> DefaultScope,
      LoginURL |-> URL(h, "/oauth2/v1/authorize"),
      RedeemURL |-> URL(h, "/oauth2/v1/token"),
      ValidateURL |-> URL(h, "/oauth2/v1/userinfo")] : h \in {GoodHost, BadHost}}

Init ==
    /\ now = Epoch
    /\ sess \in InitialSessions
    /\ prov \in InitialProviders
    /\ pc = [p \in Procs |-> "idle"]
    /\ loc = [p \in Procs |-> IdleLoc]
    /\ posts = 0
    /\ tokSrc = 0
    /\ expSrc = 0
    /\ raced = FALSE
    /\ start = prov
    /\ doms = <<>>
    /\ w = NewWriter
    /\ logger = NewLogger
    /\ srv = IdleServer(TRUE, "")
    /\ line = NoLine

(***************************************************************************)
(* The clock                                                               *)
(***************************************************************************)
Tick ==
    /\ now < Epoch + MaxTicks
    /\ now' = now + 1
    /\ UNCHANGED <<sess, prov, pc, loc, posts, tokSrc, expSrc, raced>>

(***************************************************************************)
(* RefreshSessionIfNeeded                                                  *)
(***************************************************************************)
\* goroutine p's call returns: rec is what the caller sees
Return(p, rec) ==
    /\ pc' = [pc EXCEPT ![p] = "done"]
    /\ loc' = [loc EXCEPT ![p] = [IdleLoc EXCEPT !.call = rec]]

\* the caller takes the result and goes on
Finish(p) ==
    /\ pc[p] = "done"
    /\ pc' = [pc EXCEPT ![p] = "idle"]
    /\ loc' = [loc EXCEPT ![p] = IdleLoc]
    /\ UNCHANGED <<now, sess, prov, posts, tokSrc, expSrc, raced>>

\* goroutine p enters operation op with argument s
Enter(p, op, s) ==
    [NoCall EXCEPT !.op = op, !.s = s, !.pre = sess, !.t0 = now,
                   !.posts0 = posts]

\* the guard without its test of the refresh token
NoRefreshNeeded_NoTokenCheck(s) ==
    \/ s = "nil"
    \/ After(sess.ExpiresOn, now)

\* the guard of line 95: nothing to do
NoRefreshNeeded(s) ==
    \/ s = "nil"
    \/ After(sess.ExpiresOn, now)
    \/ sess.RefreshToken = ""

\* the form with the access token in the place of the refresh token
RefreshParams_SendsAccessToken(refreshToken) ==
    [client_id |-> prov.ClientID,
     client_secret |-> prov.ClientSecret,
     refresh_token |-> sess.AccessToken,
     grant_type |-> "refresh_token"]

\* the form of lines 112-116
RefreshParams(refreshToken) ==
    [client_id |-> prov.ClientID,
     client_secret |-> prov.ClientSecret,
     refresh_token |-> refreshToken,
     grant_type |-> "refresh_token"]

\* redeemRefreshToken without the status check of lines 135-138
redeemRefreshToken_NoStatusCheck(r) ==
    LET data == Unmarshal(r.body)
    IN  CASE r.kind = "transport" -> [token |-> "", expires |-> 0, err |-> "transport"]
          [] r.kind = "readerr" -> [token |-> "", expires |-> 0, err |-> "read"]
          [] data.err -> [token |-> "", expires |-> 0, err |-> "decode"]
          [] OTHER -> [token |-> data.AccessToken,
                       expires |-> SecondsToDuration(data.ExpiresIn),
                       err |-> "nil"]

\* lines 124-150: what redeemRefreshToken makes of the answer r to its POST
redeemRefreshToken(r) ==
    LET data == Unmarshal(r.body)
    IN  CASE r.kind = "transport" -> [token |-> "", expires |-> 0, err |-> "transport"]
          [] r.kind = "readerr" -> [token |-> "", expires |-> 0, err |-> "read"]
          [] r.status # StatusOK -> [token |-> "", expires |-> 0, err |-> "status"]
          [] data.err -> [token |-> "", expires |-> 0, err |-> "decode"]
          [] OTHER -> [token |-> data.AccessToken,
                       expires |-> SecondsToDuration(data.ExpiresIn),
                       err |-> "nil"]

\* the error dropped: return false, nil
RefreshFailed_Swallowed(call, err) == [call EXCEPT !.ok = FALSE, !.err = "nil"]

\* lines 100-102: return false, err
RefreshFailed(call, err) == [call EXCEPT !.ok = FALSE, !.err = err]

\* RefreshSessionIfNeeded behind a lock on the session: it waits while another
\* goroutine is between its guard and its return
RefreshSessionIfNeeded_Locked(p, s) ==
    /\ pc[p] = "idle"
    /\ \A q \in Procs \ {p} : pc[q] \in {"idle", "done"}
    /\ LET call == Enter(p, "refresh", s)
       IN  IF NoRefreshNeeded(s)
           THEN Return(p, call)
           ELSE IF ~NewRequestOK(prov.RedeemURL)
           THEN Return(p, RefreshFailed(call, "build"))
           ELSE /\ posts + Cardinality({q \in Procs : pc[q] = "do"}) < MaxPosts
                /\ pc' = [pc EXCEPT ![p] = "do"]
                /\ loc' = [loc EXCEPT ![p].call =
                               [call EXCEPT !.req = RefreshParams(sess.RefreshToken)]]
    /\ UNCHANGED <<now, sess, prov, posts, tokSrc, expSrc, raced>>

\* lines 94-122: the guard, then the request is built
RefreshSessionIfNeeded(p, s) ==
    /\ pc[p] = "idle"
    /\ LET call == Enter(p, "refresh", s)
       IN  IF NoRefreshNeeded(s)
           THEN Return(p, call)
           ELSE IF ~NewRequestOK(prov.RedeemURL)
           THEN Return(p, RefreshFailed(call, "build"))
           ELSE /\ posts + Cardinality({q \in Procs : pc[q] = "do"}) < MaxPosts
                /\ pc' = [pc EXCEPT ![p] = "do"]
                /\ loc' = [loc EXCEPT ![p].call =
                               [call EXCEPT !.req = RefreshParams(sess.RefreshToken)]]
    /\ UNCHANGED <<now, sess, prov, posts, tokSrc, expSrc, raced>>

\* lines 124-150 and 100-102: the POST is sent and answered by r
Do(p, r) ==
    /\ pc[p] = "do"
    /\ posts' = posts + 1
    /\ LET got == redeemRefreshToken(r)
           call == [loc[p].call EXCEPT !.resp = r]
       IN  IF got.err # "nil"
           THEN Return(p, RefreshFailed(call, got.err))
           ELSE /\ pc' = [pc EXCEPT ![p] = "writeToken"]
                /\ loc' = [loc EXCEPT ![p] = [call |-> call, newToken |-> got.token,
                                              duration |-> got.expires, rid |-> posts + 1]]
    /\ UNCHANGED <<now, sess, prov, tokSrc, expSrc, raced>>

\* the new token assigned to the wrong field
WriteAccessToken_IntoRefreshToken(p) ==
    /\ pc[p] = "writeToken"
    /\ sess' = [sess EXCEPT !.RefreshToken = loc[p].newToken]
    /\ raced' = (raced \/ \E q \in Procs \ {p} : pc[q] = "writeExpires")
    /\ pc' = [pc EXCEPT ![p] = "writeExpires"]
    /\ UNCHANGED <<now, prov, loc, posts, tokSrc, expSrc>>

\* the refresh token replaced along with the access token
WriteAccessToken_RotatesRefreshToken(p) ==
    /\ pc[p] = "writeToken"
    /\ sess' = [sess EXCEPT !.AccessToken = loc[p].newToken, !.RefreshToken = ""]
    /\ tokSrc' = loc[p].rid
    /\ raced' = (raced \/ \E q \in Procs \ {p} : pc[q] = "writeExpires")
    /\ pc' = [pc EXCEPT ![p] = "writeExpires"]
    /\ UNCHANGED <<now, prov, loc, posts, expSrc>>

\* lines 104-105: s.AccessToken = newToken
WriteAccessToken(p) ==
    /\ pc[p] = "writeToken"
    /\ sess' = [sess EXCEPT !.AccessToken = loc[p].newToken]
    /\ tokSrc' = loc[p].rid
    /\ raced' = (raced \/ \E q \in Procs \ {p} : pc[q] = "writeExpires")
    /\ pc' = [pc EXCEPT ![p] = "writeExpires"]
    /\ UNCHANGED <<now, prov, loc, posts, expSrc>>

\* line 106 lost: the call returns without writing ExpiresOn
WriteExpiresOn_Skipped(p) ==
    /\ pc[p] = "writeExpires"
    /\ Return(p, [loc[p].call EXCEPT !.T = now, !.ok = TRUE, !.logged = TRUE])
    /\ UNCHANGED <<now, sess, prov, posts, tokSrc, expSrc, raced>>

\* line 107 lost: the refresh is not logged
WriteExpiresOn_Silent(p) ==
    /\ pc[p] = "writeExpires"
    /\ sess' = [sess EXCEPT !.ExpiresOn = ExpiryAt(now, loc[p].duration)]
    /\ expSrc' = loc[p].rid
    /\ Return(p, [loc[p].call EXCEPT !.T = now, !.ok = TRUE])
    /\ UNCHANGED <<now, prov, posts, tokSrc, raced>>

\* lines 106-108: s.ExpiresOn = time.Now().Add(duration).Truncate(time.Second), log, return
WriteExpiresOn(p) ==
    /\ pc[p] = "writeExpires"
    /\ sess' = [sess EXCEPT !.ExpiresOn = ExpiryAt(now, loc[p].duration)]
    /\ expSrc' = loc[p].rid
    /\ Return(p, [loc[p].call EXCEPT !.T = now, !.ok = TRUE, !.logged = TRUE])
    /\ UNCHANGED <<now, prov, posts, tokSrc, raced>>

(***************************************************************************)
(* ValidateSessionState                                                    *)
(***************************************************************************)
\* the header without its scheme
getOktaHeader_NoScheme(access_token) == [Authorization |-> access_token]

\* lines 52-56
getOktaHeader(access_token) == [Authorization |-> "Bearer " \o access_token]

\* answers of the validation endpoint to the GET
ValidateResponses ==
    {[kind |-> "transport", status |-> 0, body |-> Garbage]}
    \cup {[kind |-> "ok", status |-> st, body |-> b] :
             st \in Statuses, b \in {Garbage, JObject(Absent, Absent)}}

\* validateToken (providers/internal_util.go): one GET with the header, answered by r;
\* success is the status alone
validateToken(access_token, header, r) == r.kind = "ok" /\ r.status = StatusOK

\* lines 90-92
ValidateSessionState(p, r) ==
    /\ pc[p] = "idle"
    /\ LET header == getOktaHeader(sess.AccessToken)
       IN  Return(p, [Enter(p, "validate", "ptr") EXCEPT
                         !.resp = r, !.header = header,
                         !.ok = validateToken(sess.AccessToken, header, r)])
    /\ UNCHANGED <<now, sess, prov, posts, tokSrc, expSrc, raced>>

(***************************************************************************)
(* GetEmailAddress and GetUserName                                         *)
(***************************************************************************)
\* a userinfo body: not JSON at all, or a JSON object with its two members of interest
UserinfoGarbage == [wellformed |-> FALSE, email |-> Absent, preferred_username |-> Absent]

UserinfoObject(e, u) == [wellformed |-> TRUE, email |-> e, preferred_username |-> u]

EmailMembers == {Absent, JString("a@b.com"), JNumber(1)}

UserNameMembers == {Absent, JString("alice"), JNumber(1)}

UserinfoBodies ==
    {UserinfoGarbage} \cup {UserinfoObject(e, u) : e \in EmailMembers, u \in UserNameMembers}

\* answers of the userinfo endpoint to the GET
UserinfoResponses ==
    {[kind |-> "transport", status |-> 0, body |-> UserinfoGarbage]}
    \cup {[kind |-> "ok", status |-> StatusOK, body |-> b] : b \in UserinfoBodies}
    \cup {[kind |-> "ok", status |-> 401, body |-> b] :
              b \in {UserinfoGarbage, UserinfoObject(JString("a@b.com"), JString("alice"))}}

\* api.Request (api/api.go): the request is sent and answered by r; a failure to send,
\* a status that is not a success and a body that is not JSON are errors
Request(r) ==
    CASE r.kind # "ok" -> "transport"
      [] r.status # StatusOK -> "status"
      [] ~r.body.wellformed -> "decode"
      [] OTHER -> "nil"

\* json.Get(key).String(): the member as a string, an error when it is absent or
\* not a string
GetString(body, key) ==
    IF body[key].t = "string"
    THEN [v |-> body[key].s, err |-> "nil"]
    ELSE [v |-> "", err |-> "field"]

\* lines 58-72 and 74-88: the GET is built, sent and answered by r, and the member
\* key of the answer is returned
Userinfo(p, op, key, r) ==
    /\ pc[p] = "idle"
    /\ LET call == Enter(p, op, "ptr")
           header == getOktaHeader(sess.AccessToken)
           sent == [call EXCEPT !.resp = r, !.header = header]
       IN  IF ~NewRequestOK(prov.ValidateURL)
           THEN Return(p, [call EXCEPT !.err = "build", !.logged = TRUE])
           ELSE IF Request(r) # "nil"
           THEN Return(p, [sent EXCEPT !.err = Request(r), !.logged = TRUE])
           ELSE Return(p, [sent EXCEPT !.val = GetString(r.body, key).v,
                                       !.err = GetString(r.body, key).err])
    /\ UNCHANGED <<now, sess, prov, posts, tokSrc, expSrc, raced>>

\* lines 58-72
GetEmailAddress(p, r) == Userinfo(p, "email", "email", r)

\* GetUserName reading the key of GetEmailAddress
GetUserName_ReadsEmail(p, r) == Userinfo(p, "username", "email", r)

\* lines 74-88
GetUserName(p, r) == Userinfo(p, "username", "preferred_username", r)

(***************************************************************************)
(* NewOktaProvider and SetOktaDomain                                       *)
(***************************************************************************)
Domains == {GoodHost, "other.okta.example", BadHost, ""}

\* an endpoint as the operator's configuration may leave it: nil, empty, or set
ConfiguredURLs == {NilURL, EmptyURL, PathURL("/custom"), URL("idp.example", "/custom")}

\* the ProviderData handed to NewOktaProvider
ProviderDatas ==
    [ProviderName : {""}, ClientID : {"id"}, ClientSecret : {"secret"},
     Scope : {"", "openid"},
     LoginURL : ConfiguredURLs, RedeemURL : ConfiguredURLs, ValidateURL : ConfiguredURLs]

\* lines 20-26
NewOktaProvider(p) ==
    [p EXCEPT !.ProviderName = "Okta",
              !.Scope = IF p.Scope = "" THEN DefaultScope ELSE @]

\* the test for nil alone
Unset_NilOnly(u) == u = NilURL

\* a test that always holds: the endpoint is overwritten
Unset_Always(u) == TRUE

\* the test of lines 29, 36 and 43: nil, or a URL whose String() is empty
Unset(u) == u = NilURL \/ URLString(u) = ""

\* SetOktaDomain with the test of line 36 left out
WithOktaDomain_OverwritesRedeemURL(p, domain) ==
    [p EXCEPT
       !.LoginURL = IF Unset(@) THEN URL(domain, "/oauth2/v1/authorize") ELSE @,
       !.RedeemURL = URL(domain, "/oauth2/v1/token"),
       !.ValidateURL = IF Unset(@) THEN URL(domain, "/oauth2/v1/userinfo") ELSE @]

\* lines 28-50: the configuration SetOktaDomain(domain) leaves
WithOktaDomain(p, domain) ==
    [p EXCEPT
       !.LoginURL = IF Unset(@) THEN URL(domain, "/oauth2/v1/authorize") ELSE @,
       !.RedeemURL = IF Unset(@) THEN URL(domain, "/oauth2/v1/token") ELSE @,
       !.ValidateURL = IF Unset(@) THEN URL(domain, "/oauth2/v1/userinfo") ELSE @]

\* lines 28-50
SetOktaDomain(domain) ==
    /\ Len(doms) < MaxSets
    /\ prov' = WithOktaDomain(prov, domain)
    /\ doms' = Append(doms, domain)
    /\ UNCHANGED <<start, coreVars, logVars>>

(***************************************************************************)
(* net/http: the server's ResponseWriter                                   *)
(***************************************************************************)
\* ResponseWriter.WriteHeader: the first call sends the status and the header map as
\* it is then; a later call is ignored
ResponseWriteHeader(rw, s) ==
    IF rw.wroteHeader
    THEN rw
    ELSE [rw EXCEPT !.wroteHeader = TRUE, !.status = s, !.sent = rw.header]

\* ResponseWriter.Write: WriteHeader(200) first if no header was written, then n bytes
\* of body
ResponseWrite(rw, n) ==
    [ResponseWriteHeader(rw, StatusOK) EXCEPT !.size = @ + n]

\* the server ends the response once the handler has returned: a response never
\* written to goes out as 200 with the header map as it is then
ResponseFinish(rw) == ResponseWriteHeader(rw, StatusOK)

(***************************************************************************)
(* responseLogger and loggingHandler                                       *)
(***************************************************************************)
AuthValues == {"alice", "bob"}

UpstreamValues == {"10.0.0.1:80"}

\* values the wrapped handler may set header k to
HeaderValues(k) == IF k = "GAP-Auth" THEN AuthValues ELSE UpstreamValues

\* url.User of the request: none, or a user name
URLUsers == {"", "urluser"}

BodySizes == {0, 2}

\* lines 37-48: the two headers, when not empty, are recorded and deleted
ExtractGAPMetadata(l, header) ==
    LET upstream == header["GAP-Upstream-Address"]
        authInfo == header["GAP-Auth"]
    IN  [l |-> [l EXCEPT !.upstream = IF upstream # "" THEN upstream ELSE @,
                         !.authInfo = IF authInfo # "" THEN authInfo ELSE @],
         header |-> [header EXCEPT
                       !["GAP-Upstream-Address"] = IF upstream # "" THEN "" ELSE @,
                       !["GAP-Auth"] = IF authInfo # "" THEN "" ELSE @]]

\* lines 67-69
Status(l) == l.status

\* lines 71-73
Size(l) == l.size

\* lines 139-184: the fields of the audit line
writeLogLine(username, upstream, user, status, size) ==
    [written |-> TRUE,
     Username |-> IF username # "" THEN username ELSE IF user # "" THEN user ELSE "-",
     Upstream |-> IF upstream # "" THEN upstream ELSE "-",
     StatusCode |-> ToString(status),
     ResponseSize |-> ToString(size)]

\* the wrapped handler may act on its ResponseWriter
Handling == srv.phase = "handler" /\ Len(srv.ops) < MaxOps

\* lines 112-129: a request arrives, the logger is made and the handler is called
ServeHTTP(user) ==
    /\ srv.phase = "idle"
    /\ logger' = NewLogger
    /\ srv' = [srv EXCEPT !.phase = "handler", !.user = user]
    /\ UNCHANGED <<w, line, coreVars, prov, domVars>>

\* lines 33-35: the handler sets header k to v in the map Header() returns
HeaderSet(k, v) ==
    /\ Handling
    /\ w' = [w EXCEPT !.header[k] = v]
    /\ srv' = [srv EXCEPT !.ops = Append(@, "Set"),
                          !.auth = IF k = "GAP-Auth" THEN v ELSE @,
                          !.upstream = IF k = "GAP-Upstream-Address" THEN v ELSE @]
    /\ UNCHANGED <<logger, line, coreVars, prov, domVars>>

\* lines 61-65
WriteHeader(s) ==
    /\ Handling
    /\ LET x == ExtractGAPMetadata(logger, w.header)
       IN  /\ w' = ResponseWriteHeader([w EXCEPT !.header = x.header], s)
           /\ logger' = [x.l EXCEPT !.status = s]
    /\ srv' = [srv EXCEPT !.ops = Append(@, "WriteHeader")]
    /\ UNCHANGED <<line, coreVars, prov, domVars>>

\* lines 50-59
Write(n) ==
    /\ Handling
    /\ LET l1 == IF logger.status = 0 THEN [logger EXCEPT !.status = StatusOK] ELSE logger
           x == ExtractGAPMetadata(l1, w.header)
       IN  /\ w' = ResponseWrite([w EXCEPT !.header = x.header], n)
           /\ logger' = [x.l EXCEPT !.size = @ + n]
    /\ srv' = [srv EXCEPT !.ops = Append(@, "Write")]
    /\ UNCHANGED <<line, coreVars, prov, domVars>>

\* lines 130-133: the handler has returned; the audit line is written if logging is on
ServeHTTPReturn ==
    /\ srv.phase = "handler"
    /\ srv' = [srv EXCEPT !.phase = "returned"]
    /\ line' = IF srv.enabled
               THEN writeLogLine(logger.authInfo, logger.upstream, srv.user,
                                 Status(logger), Size(logger))
               ELSE line
    /\ UNCHANGED <<w, logger, coreVars, prov, domVars>>

\* ServeHTTP has returned to the server, which ends the response
FinishResponse ==
    /\ srv.phase = "returned"
    /\ w' = ResponseFinish(w)
    /\ srv' = [srv EXCEPT !.phase = "served"]
    /\ UNCHANGED <<logger, line, coreVars, prov, domVars>>

(***************************************************************************)
(* Specifications                                                          *)
(***************************************************************************)
\* no call is in progress
Quiet == \A q \in Procs : pc[q] = "idle"

\* the answers drawn when calls overlap: a failure, and one good answer per token
RaceResponses ==
    {r \in Responses : r.kind = "transport"}
    \cup {[kind |-> "ok", status |-> StatusOK, body |-> JObject(JString(v), JNumber(1))] :
             v \in NewTokens}

RaceValidateResponses == {r \in ValidateResponses : r.body.wellformed}

\* goroutines call the provider whenever they like, with no lock around the session:
\* the calls interleave between the guard, the POST and each of the two writes
\* (the writes of lines 105 and 106 race with the other goroutine's reads and writes)
Next ==
    /\ \/ Tick
       \/ \E p \in Procs : RefreshSessionIfNeeded(p, "ptr")
       \/ \E p \in Procs, r \in RaceResponses : Do(p, r)
       \/ \E p \in Procs : WriteAccessToken(p)
       \/ \E p \in Procs : WriteExpiresOn(p)
       \/ \E p \in Procs, r \in RaceValidateResponses : ValidateSessionState(p, r)
       \/ \E p \in Procs : Finish(p)
    /\ UNCHANGED <<domVars, logVars>>

Spec == Init /\ [][Next]_vars

\* the caller holds a per-session lock around each call
NextSeq ==
    /\ \/ Tick
       \/ \E p \in Procs, s \in {"nil", "ptr"} : Quiet /\ RefreshSessionIfNeeded(p, s)
       \/ \E p \in Procs, r \in Responses : Do(p, r)
       \/ \E p \in Procs : WriteAccessToken(p)
       \/ \E p \in Procs : WriteExpiresOn(p)
       \/ \E p \in Procs, r \in ValidateResponses : Quiet /\ ValidateSessionState(p, r)
       \/ \E p \in Procs, r \in UserinfoResponses : Quiet /\ GetEmailAddress(p, r)
       \/ \E p \in Procs, r \in UserinfoResponses : Quiet /\ GetUserName(p, r)
       \/ \E p \in Procs : Finish(p)
    /\ UNCHANGED <<domVars, logVars>>

SpecSeq == Init /\ [][NextSeq]_vars

\* start-up: a provider is made from a ProviderData and SetOktaDomain is called on it
InitDomain ==
    /\ now = Epoch
    /\ sess = NoSession
    /\ \E d \in ProviderDatas : prov = NewOktaProvider(d)
    /\ pc = [p \in Procs |-> "idle"]
    /\ loc = [p \in Procs |-> IdleLoc]
    /\ posts = 0
    /\ tokSrc = 0
    /\ expSrc = 0
    /\ raced = FALSE
    /\ start = prov
    /\ doms = <<>>
    /\ w = NewWriter
    /\ logger = NewLogger
    /\ srv = IdleServer(TRUE, "")
    /\ line = NoLine

NextDomain == \E d \in Domains : SetOktaDomain(d)

SpecDomain == InitDomain /\ [][NextDomain]_vars

\* the logging handler, with request logging on or off, before a request
InitLog ==
    /\ now = Epoch
    /\ sess = NoSession
    /\ prov \in InitialProviders
    /\ prov.RedeemURL.Host = GoodHost
    /\ pc = [p \in Procs |-> "idle"]
    /\ loc = [p \in Procs |-> IdleLoc]
    /\ posts = 0
    /\ tokSrc = 0
    /\ expSrc = 0
    /\ raced = FALSE
    /\ start = prov
    /\ doms = <<>>
    /\ w = NewWriter
    /\ logger = NewLogger
    /\ \E e \in BOOLEAN : srv = IdleServer(e, "")
    /\ line = NoLine

\* one request is served: the wrapped handler sets headers and writes as it likes
NextLog ==
    \/ \E user \in URLUsers : ServeHTTP(user)
    \/ \E k \in GAPHeaders : \E v \in HeaderValues(k) : HeaderSet(k, v)
    \/ \E s \in Statuses : WriteHeader(s)
    \/ \E n \in BodySizes : Write(n)
    \/ ServeHTTPReturn
    \/ FinishResponse

SpecLog == InitLog /\ [][NextLog]_vars

(***************************************************************************)
(* Properties                                                              *)
(***************************************************************************)
\* goroutine p's call of operation op has returned and its result is at hand
Done(p, op) == pc[p] = "done" /\ loc[p].call.op = op

\* the call found the session due for a refresh: not nil, ExpiresOn not after the
\* clock, a refresh token at hand
Due(c) == c.s = "ptr" /\ c.pre.ExpiresOn <= c.t0 /\ c.pre.RefreshToken # ""

\* POSTs issued to the token endpoint during the call
Issued(c) == posts - c.posts0

\* the call left the token fields as it found them
TokenFieldsKept(c) ==
    sess.AccessToken = c.pre.AccessToken /\ sess.ExpiresOn = c.pre.ExpiresOn

\* both token fields were written from the answer to the call's POST
Updated(c) == Issued(c) = 1 /\ tokSrc = posts /\ expSrc = posts

\* the token exchange failed: no request could be built, or it was not answered,
\* or the answer could not be read, or its status is not 200
ExchangeFailed(c) ==
    \/ prov.RedeemURL.Host = BadHost
    \/ c.resp.kind \in {"transport", "readerr"}
    \/ c.resp.kind = "ok" /\ c.resp.status # 200

\* the answer is 200 with a JSON object body
Answered200(c) == c.resp.kind = "ok" /\ c.resp.status = 200 /\ c.resp.body.wellformed

\* C1: an expired session with a refresh token whose token exchange fails gets
\* (false, error) and keeps its AccessToken and ExpiresOn
C1_FailedExchangeKeepsSession ==
    \A p \in Procs :
        LET c == loc[p].call
        IN  (Done(p, "refresh") /\ Due(c) /\ ExchangeFailed(c))
                => (~c.ok /\ c.err # "nil" /\ TokenFieldsKept(c))

C1_Witness ==
    \E p \in Procs :
        LET c == loc[p].call
        IN  /\ Done(p, "refresh") /\ Due(c) /\ c.pre.ExpiresOn < c.t0
            /\ c.resp.kind = "ok" /\ c.resp.status = 500 /\ c.resp.body.wellformed
            /\ ~c.ok /\ c.err # "nil"

\* C2: an expired session with a refresh token whose POST is answered 200 with
\* {access_token: A, expires_in: N}, N a number the int64 field holds, gets
\* (true, nil); AccessToken is A, ExpiresOn is the expiry computed from N, and
\* both were written from that one answer
C2_SuccessReplacesBothFields ==
    \A p \in Procs :
        LET c == loc[p].call
            b == c.resp.body
            d == b.expires_in.n * TicksPerSecond
        IN  (Done(p, "refresh") /\ Answered200(c)
             /\ b.access_token.t = "string"
             /\ b.expires_in.t = "number" /\ b.expires_in.n \in IntRange)
                => /\ c.ok /\ c.err = "nil"
                   /\ Updated(c)
                   /\ sess.AccessToken = b.access_token.s
                   /\ sess.RefreshToken = c.pre.RefreshToken
                   /\ d \in IntRange => sess.ExpiresOn = (c.T + d) - ((c.T + d) % TicksPerSecond)

C2_Witness ==
    \E p \in Procs :
        LET c == loc[p].call
        IN  /\ Done(p, "refresh") /\ Due(c) /\ c.pre.ExpiresOn < c.t0
            /\ Answered200(c) /\ c.resp.body.access_token = JString("new1")
            /\ c.resp.body.expires_in = JNumber(1)
            /\ c.ok /\ sess.AccessToken = "new1" /\ sess.ExpiresOn # c.pre.ExpiresOn

\* C3: after a successful refresh answered with expires_in = N and committed at
\* clock time T, ExpiresOn is T + N seconds cut to the whole second, for every N
\* the field can hold
C3_ExpiresOnIsTPlusN ==
    \A p \in Procs :
        LET c == loc[p].call
            n == c.resp.body.expires_in.n
        IN  (Done(p, "refresh") /\ c.ok /\ c.resp.body.expires_in.t = "number")
                => /\ sess.ExpiresOn % TicksPerSecond = 0
                   /\ sess.ExpiresOn = TruncateSecond(c.T + n * TicksPerSecond)

\* C4: with an empty RefreshToken the call returns (false, nil), issues no
\* request and leaves the session as it was, whatever ExpiresOn is
C4_NoRefreshTokenNoRefresh ==
    \A p \in Procs :
        LET c == loc[p].call
        IN  (Done(p, "refresh") /\ c.s = "ptr" /\ c.pre.RefreshToken = "")
                => (~c.ok /\ c.err = "nil" /\ Issued(c) = 0 /\ c.req = NoRequest
                    /\ sess = c.pre)

C4_Witness ==
    \E p \in Procs :
        LET c == loc[p].call
        IN  /\ Done(p, "refresh") /\ c.s = "ptr" /\ c.pre.RefreshToken = ""
            /\ c.pre.ExpiresOn < c.t0 /\ ~c.ok

\* C5: with a nil session, or with ExpiresOn strictly after the clock, the call
\* returns (false, nil), issues no request and leaves the session as it was,
\* refresh token or not
C5_FreshOrNilNoRefresh ==
    \A p \in Procs :
        LET c == loc[p].call
        IN  (Done(p, "refresh") /\ (c.s = "nil" \/ c.pre.ExpiresOn > c.t0))
                => (~c.ok /\ c.err = "nil" /\ Issued(c) = 0 /\ c.req = NoRequest
                    /\ sess = c.pre)

C5_Witness ==
    \E p \in Procs :
        LET c == loc[p].call
        IN  /\ Done(p, "refresh") /\ c.s = "ptr" /\ c.pre.RefreshToken # ""
            /\ c.pre.ExpiresOn > c.t0 /\ ~c.ok

\* C6 as stated: a session whose ExpiresOn equals the clock, with a refresh
\* token, is left alone: no request, (false, nil)
C6_EqualIsStillValid ==
    \A p \in Procs :
        LET c == loc[p].call
        IN  (Done(p, "refresh") /\ c.s = "ptr" /\ c.pre.RefreshToken # ""
             /\ c.pre.ExpiresOn = c.t0)
                => (~c.ok /\ c.err = "nil" /\ Issued(c) = 0)

\* C6 as amended: for a session with a refresh token the call is a no-op exactly
\* when ExpiresOn is strictly after the clock; at ExpiresOn = clock the refresh
\* is attempted, and the request is sent unless it cannot be built
C6_RefreshUnlessStrictlyAfter ==
    \A p \in Procs :
        LET c == loc[p].call
        IN  (Done(p, "refresh") /\ c.s = "ptr" /\ c.pre.RefreshToken # "")
                => /\ (~c.ok /\ c.err = "nil" /\ Issued(c) = 0) <=> (c.pre.ExpiresOn > c.t0)
                   /\ (c.pre.ExpiresOn <= c.t0 /\ prov.RedeemURL.Host # BadHost)
                          => Issued(c) = 1

C6_Witness ==
    \E p \in Procs :
        LET c == loc[p].call
        IN  /\ Done(p, "refresh") /\ c.s = "ptr" /\ c.pre.RefreshToken # ""
            /\ c.pre.ExpiresOn = c.t0 /\ Issued(c) = 1 /\ c.ok

\* C7 as stated: (false, nil) iff no request was issued, (false, error) iff a
\* request was issued and the refresh failed, (true, nil) iff a request was
\* issued and the session was updated, never (true, error)
C7_ResultTellsRequestIssued ==
    \A p \in Procs :
        LET c == loc[p].call
        IN  Done(p, "refresh")
                => /\ (~c.ok /\ c.err = "nil") <=> (Issued(c) = 0)
                   /\ (~c.ok /\ c.err # "nil") <=> (Issued(c) = 1 /\ ~Updated(c))
                   /\ (c.ok /\ c.err = "nil") <=> (Issued(c) = 1 /\ Updated(c))
                   /\ ~(c.ok /\ c.err # "nil")

\* C7 as amended: (false, nil) iff the guard found nothing to do, and then no
\* request is issued; (false, error) iff the refresh was attempted and failed,
\* with the token fields kept and no request issued exactly when none could be
\* built; (true, nil) iff a request was issued and the session was updated;
\* never (true, error)
C7_ResultTellsOutcome ==
    \A p \in Procs :
        LET c == loc[p].call
        IN  Done(p, "refresh")
                => /\ (~c.ok /\ c.err = "nil") <=> ~Due(c)
                   /\ ~Due(c) => Issued(c) = 0
                   /\ (~c.ok /\ c.err # "nil") <=> (Due(c) /\ ~Updated(c))
                   /\ (~c.ok /\ c.err # "nil") => TokenFieldsKept(c)
                   /\ (Due(c) /\ Issued(c) = 0) <=> (Due(c) /\ prov.RedeemURL.Host = BadHost)
                   /\ (c.ok /\ c.err = "nil") <=> (Issued(c) = 1 /\ Updated(c))
                   /\ ~(c.ok /\ c.err # "nil")

C7_Witness ==
    \E p \in Procs :
        LET c == loc[p].call
        IN  /\ Done(p, "refresh") /\ Due(c) /\ ~c.ok /\ c.err # "nil" /\ Issued(c) = 0

\* C8: a 200 answer whose body is not JSON, or is a JSON object without
\* access_token or without expires_in, gets (false, error) and neither token
\* field is written
C8_MissingFieldIsDecodeError ==
    \A p \in Procs :
        LET c == loc[p].call
            b == c.resp.body
        IN  (Done(p, "refresh") /\ c.resp.kind = "ok" /\ c.resp.status = 200
             /\ (~b.wellformed \/ b.access_token.t = "absent" \/ b.expires_in.t = "absent"))
                => (~c.ok /\ c.err # "nil" /\ TokenFieldsKept(c))

\* C9 as stated: in every reachable state AccessToken and ExpiresOn are both
\* untouched or both from one single answer
C9_NeverPartiallyUpdated == tokSrc = expSrc

\* C9 as amended: AccessToken and ExpiresOn come from different answers (or one
\* of them from none) only while a call is between its two writes, or after one
\* call wrote AccessToken while another was between its two writes; a call that
\* has returned, and did not overlap another one's writes, leaves the pair as it
\* was or both from its one answer
C9_MixedOnlyMidWriteOrRaced ==
    tokSrc # expSrc => (raced \/ \E p \in Procs : pc[p] = "writeExpires")

C9_Witness ==
    \E p \in Procs :
        /\ Done(p, "refresh") /\ loc[p].call.ok
        /\ ~raced /\ tokSrc = expSrc /\ tokSrc = 2
        /\ \E q \in Procs \ {p} : pc[q] = "done" /\ loc[q].call.ok

EndpointNames == {"LoginURL", "RedeemURL", "ValidateURL"}

EndpointPath(f) ==
    CASE f = "LoginURL" -> "/oauth2/v1/authorize"
      [] f = "RedeemURL" -> "/oauth2/v1/token"
      [] f = "ValidateURL" -> "/oauth2/v1/userinfo"

\* the three endpoints of a configuration
Endpoints(p) == [f \in EndpointNames |-> p[f]]

\* an endpoint that is nil or the empty URL
UnsetOrEmpty(u) == u = NilURL \/ u = EmptyURL

\* the configuration after SetOktaDomain was called with each domain of ds in turn
RECURSIVE AfterDomains(_, _)
AfterDomains(p, ds) ==
    IF ds = <<>> THEN p ELSE AfterDomains(WithOktaDomain(p, Head(ds)), Tail(ds))

\* C11: SetOktaDomain(d) twice leaves the three endpoints as SetOktaDomain(d) once
\* leaves them, and an endpoint that was nil or empty before the first call is then
\* https://d/oauth2/v1/authorize, .../token or .../userinfo
C11_SetOktaDomainIdempotent ==
    /\ prov = AfterDomains(start, doms)
    /\ \A d \in Domains :
         LET once == WithOktaDomain(prov, d)
         IN  /\ Endpoints(WithOktaDomain(once, d)) = Endpoints(once)
             /\ \A f \in EndpointNames :
                  UnsetOrEmpty(prov[f]) =>
                    /\ once[f] = [Scheme |-> "https", Host |-> d, Path |-> EndpointPath(f)]
                    /\ URLString(once[f]) = "https://" \o EscapeHost(d) \o EndpointPath(f)
    /\ (Len(doms) = 2 /\ doms[1] = doms[2]) =>
         Endpoints(prov) = Endpoints(WithOktaDomain(start, doms[1]))

\* SetOktaDomain was called twice with one domain on a configuration with a nil, an
\* empty and a configured endpoint
C11_Witness ==
    /\ doms = <<GoodHost, GoodHost>>
    /\ start.LoginURL = NilURL
    /\ start.RedeemURL = EmptyURL
    /\ start.ValidateURL = URL("idp.example", "/custom")
    /\ prov.LoginURL = URL(GoodHost, "/oauth2/v1/authorize")
    /\ prov.RedeemURL = URL(GoodHost, "/oauth2/v1/token")


\* an endpoint the configuration has set: not nil, and its String() not empty
Configured(u) == u # NilURL /\ URLString(u) # ""

\* the fields of a configuration that are not endpoints
OtherFields(p) ==
    [ProviderName |-> p.ProviderName, ClientID |-> p.ClientID,
     ClientSecret |-> p.ClientSecret, Scope |-> p.Scope]

\* C12: SetOktaDomain never overwrites an endpoint that is already set, each of the
\* three on its own, and changes nothing but the endpoints
C12_SetOktaDomainKeepsConfigured ==
    /\ \A d \in Domains :
         LET q == WithOktaDomain(prov, d)
         IN  /\ \A f \in EndpointNames : Configured(prov[f]) => q[f] = prov[f]
             /\ OtherFields(q) = OtherFields(prov)
    /\ \A f \in EndpointNames : Configured(start[f]) => prov[f] = start[f]
    /\ OtherFields(prov) = OtherFields(start)
    /\ sess = NoSession

\* SetOktaDomain ran on a configuration whose token endpoint alone was set: that one
\* is kept and the two others are defaulted
C12_Witness ==
    /\ doms = <<"other.okta.example">>
    /\ start.RedeemURL = PathURL("/custom")
    /\ prov.RedeemURL = PathURL("/custom")
    /\ start.LoginURL = NilURL
    /\ prov.LoginURL = URL("other.okta.example", "/oauth2/v1/authorize")
    /\ start.ValidateURL = EmptyURL
    /\ prov.ValidateURL = URL("other.okta.example", "/oauth2/v1/userinfo")
    /\ start.Scope = "openid"
    /\ prov.Scope = "openid"

\* C13: SetOktaDomain(d1) then SetOktaDomain(d2) leaves the endpoints that
\* SetOktaDomain(d2) then SetOktaDomain(d1) leaves, for every configuration and
\* every d1 and d2
C13_OrderIndependent ==
    Len(doms) = 2 =>
        Endpoints(prov) = Endpoints(AfterDomains(start, <<doms[2], doms[1]>>))

\* C13 as the code has it: the first domain wins. SetOktaDomain(d1) then
\* SetOktaDomain(d2) leaves the endpoints SetOktaDomain(d1) alone leaves, and the
\* two orders agree exactly when d1 = d2 or all three endpoints were already set
C13_FirstDomainWins ==
    /\ \A d1 \in Domains, d2 \in Domains :
         LET a == Endpoints(WithOktaDomain(WithOktaDomain(prov, d1), d2))
             b == Endpoints(WithOktaDomain(WithOktaDomain(prov, d2), d1))
         IN  /\ a = Endpoints(WithOktaDomain(prov, d1))
             /\ (a = b) <=> (d1 = d2 \/ \A f \in EndpointNames : ~UnsetOrEmpty(prov[f]))
    /\ doms # <<>> => Endpoints(prov) = Endpoints(WithOktaDomain(start, doms[1]))

\* SetOktaDomain was called with two different domains and the endpoint that was nil
\* has the first one's
C13_Witness ==
    /\ doms = <<GoodHost, "other.okta.example">>
    /\ start.LoginURL = NilURL
    /\ prov.LoginURL = URL(GoodHost, "/oauth2/v1/authorize")


(***************************************************************************)
(* The token request                                                       *)
(***************************************************************************)
\* goroutine p is inside a refresh, between its guard and its return
InRefresh(p) == pc[p] \in {"do", "writeToken", "writeExpires"}

\* C14: one call of RefreshSessionIfNeeded issues at most one POST to the token
\* endpoint, whatever its outcome, and the POST carries grant_type=refresh_token,
\* the session's RefreshToken and the provider's client_id and client_secret
C14_AtMostOneGrantPerCall ==
    \A p \in Procs :
        /\ InRefresh(p) => Issued(loc[p].call) \in {0, 1}
        /\ Done(p, "refresh") =>
             LET c == loc[p].call
             IN  /\ Issued(c) \in {0, 1}
                 /\ Issued(c) = 1 =>
                      /\ c.req.grant_type = "refresh_token"
                      /\ c.req.refresh_token = c.pre.RefreshToken
                      /\ c.req.refresh_token = sess.RefreshToken
                      /\ c.req.client_id = prov.ClientID
                      /\ c.req.client_secret = prov.ClientSecret
                 /\ Issued(c) = 0 => c.req = NoRequest

\* a refresh that failed on the endpoint's status 500 has issued its one POST
C14_Witness ==
    \E p \in Procs :
        /\ Done(p, "refresh")
        /\ Issued(loc[p].call) = 1
        /\ loc[p].call.resp.status = 500
        /\ loc[p].call.err = "status"
        /\ loc[p].call.req.refresh_token = "refresh1"


(***************************************************************************)
(* GetEmailAddress and GetUserName                                         *)
(***************************************************************************)
\* the call's GET was answered with status 200 and a JSON object
UserinfoAnswered(c) ==
    /\ NewRequestOK(prov.ValidateURL)
    /\ c.resp.kind = "ok"
    /\ c.resp.status = StatusOK
    /\ c.resp.body.wellformed

\* the call's GET could not be built or sent, or its answer is not JSON
UserinfoUnusable(c) ==
    \/ ~NewRequestOK(prov.ValidateURL)
    \/ c.resp.kind = "transport"
    \/ ~c.resp.body.wellformed

\* what the claim says a userinfo call that read member key returns and leaves
UserinfoContract(c, key) ==
    /\ (UserinfoAnswered(c) /\ c.resp.body[key].t = "string") =>
          (c.val = c.resp.body[key].s /\ c.val # "" /\ c.err = "nil")
    /\ (UserinfoUnusable(c) \/ c.resp.body[key].t = "absent") =>
          (c.val = "" /\ c.err # "nil")
    /\ sess = c.pre
    /\ prov = start
    /\ Issued(c) = 0

\* C15: GetEmailAddress returns (value, nil) when the userinfo answer is a JSON object
\* whose member email is a string, and ("", error) when the member is absent, the
\* request cannot be built or sent, or the answer cannot be decoded; GetUserName does
\* the same for preferred_username; neither changes the session or the configuration
C15_UserinfoFieldOrError ==
    \A p \in Procs :
        /\ Done(p, "email") => UserinfoContract(loc[p].call, "email")
        /\ Done(p, "username") => UserinfoContract(loc[p].call, "preferred_username")

\* GetUserName has returned the preferred_username of an answer whose email is absent
C15_Witness ==
    \E p \in Procs :
        /\ Done(p, "username")
        /\ loc[p].call.resp.body = UserinfoObject(Absent, JString("alice"))
        /\ loc[p].call.val = "alice"
        /\ loc[p].call.err = "nil"


(***************************************************************************)
(* Concurrent refreshes                                                    *)
(***************************************************************************)
\* the session as it stands is due for a refresh and the token request can be built
DueNow ==
    /\ sess.ExpiresOn <= now
    /\ sess.RefreshToken # ""
    /\ NewRequestOK(prov.RedeemURL)

\* C16: the core does not serialize refreshes. A call on a session that is due goes
\* on to its POST whatever another goroutine's call is doing, so that two calls can
\* both find the session expired, both issue a grant and both write the token fields
C16_RefreshNotSerialized ==
    \A p \in Procs :
        (/\ pc[p] = "idle"
         /\ DueNow
         /\ posts + Cardinality({q \in Procs : pc[q] = "do"}) < MaxPosts)
        => ENABLED (RefreshSessionIfNeeded(p, "ptr") /\ pc'[p] = "do")

\* two calls found the same expired session, each issued its POST, and each wrote
\* both token fields and returned (true, nil)
C16_Witness ==
    \E p \in Procs, q \in Procs :
        /\ p # q
        /\ Done(p, "refresh") /\ Done(q, "refresh")
        /\ Due(loc[p].call) /\ Due(loc[q].call)
        /\ loc[p].call.pre = loc[q].call.pre
        /\ loc[p].call.resp.kind = "ok" /\ loc[q].call.resp.kind = "ok"
        /\ loc[p].call.ok /\ loc[q].call.ok
        /\ posts = 2
        /\ tokSrc # 0 /\ expSrc # 0


C19_RefreshTokenNeverModified ==
    \A p \in Procs :
        (InRefresh(p) \/ Done(p, "refresh")) =>
            sess.RefreshToken = loc[p].call.pre.RefreshToken

\* a refresh replaced the access token and the expiry and left the refresh token
C19_Witness ==
    \E p \in Procs :
        /\ Done(p, "refresh")
        /\ loc[p].call.ok
        /\ sess.AccessToken = "new1"
        /\ sess.AccessToken # loc[p].call.pre.AccessToken
        /\ sess.ExpiresOn # loc[p].call.pre.ExpiresOn
        /\ sess.RefreshToken = "refresh1"


(***************************************************************************)
(* The logging handler                                                     *)
(***************************************************************************)
\* the response has gone out and the request is over
Served == srv.phase = "served"

\* C18: whatever headers the wrapped handler sets and however it writes (not at all
\* included), the response sent to the client has neither GAP-Auth nor
\* GAP-Upstream-Address, and the audit line has the values the handler set
C18_GAPHeadersStrippedAndRecorded ==
    Served =>
        /\ \A k \in GAPHeaders : w.sent[k] = ""
        /\ (srv.enabled /\ srv.auth # "") => line.Username = srv.auth
        /\ (srv.enabled /\ srv.upstream # "") => line.Upstream = srv.upstream

\* C20: Status() is the status the ResponseWriter sent to the client: the argument
\* of the first WriteHeader, or 200 when a Write came first or nothing was written
C20_StatusIsWhatWasSent ==
    Served => Status(logger) = w.status

=============================================================================
